---- MODULE Spec2Model ----
(***************************************************************************)
(* State-machine model of dnd_maze_generator: generate_maze (generator.py) *)
(* and the graph data model it builds (models.py).                         *)
(*                                                                         *)
(* Nodes live on a heap (the sequence `nodes`, in allocation order); a     *)
(* reference to a node (a grid cell, a neighbor link, the entry) is its    *)
(* heap index, and 0 stands for Python's None.  The node's `id` is a field *)
(* of the node, as in the source, and is not used as the reference.        *)
(*                                                                         *)
(* Random draws are action inputs.  A float of rng.random() is the integer *)
(* k standing for k/FloatDen, 0 <= k < FloatDen; the probabilities of the  *)
(* arguments are integers in the same unit.  The draws that decide the     *)
(* topology (start cell, DFS neighbor, loop draw) range over all of their  *)
(* values.  The draws that only decorate nodes (name words, attributes,    *)
(* lengths) take the first value of their range, except that in at most    *)
(* MaxOddDraws node creations one of them ranges over its first MaxPick    *)
(* values (floats: over all values), and only in mazes of at most          *)
(* MaxOddRooms rooms.                                                      *)
(*                                                                         *)
(* Spec is a direct call of generate_maze.  FairSpec adds the fairness of  *)
(* the while loop of step 2.  SpecCli is main of cli.py, from the parsed   *)
(* Namespace to sys.exit or to the call of generate_maze.  A lookup        *)
(* (get_cell, get_room) returns a record: whether it raises, and its value.*)
(***************************************************************************)
EXTENDS Integers, Sequences, FiniteSets, TLC

(* ------------------------------ bounds --------------------------------- *)
MaxWidth == 3
MaxHeight == 3
MaxRooms == 9
FloatDen == 4
MaxPick == 2
MaxOddDraws == 1
MaxOddRooms == 2
LookupMargin == 2
MaxSuffix == 2

(* --------------------------- models.py --------------------------------- *)
None == 0

Direction == {"N", "E", "S", "W"}

Opposite(d) ==
  CASE d = "N" -> "S"
    [] d = "S" -> "N"
    [] d = "E" -> "W"
    [] d = "W" -> "E"

OwnerNone == "Empty"
TreasureNone == "None"
TrapNone == "None"

\* the non-none members of the enums, in definition order
Owners ==
  <<"Goblin", "Orc", "Skeleton", "Zombie", "Giant Spider", "Giant Rat",
    "Dragon", "Mimic", "Lich", "Bandit", "Ghost">>

Treasures ==
  <<"Gold Coins", "Silver Coins", "Gems", "Magic Weapon", "Magic Armor",
    "Potion", "Scroll", "Magic Ring", "Treasure Chest">>

Traps ==
  <<"Pit Trap", "Poison Dart Trap", "Spike Trap", "Fire Trap",
    "Rolling Boulder", "Collapsing Ceiling", "Poison Gas", "Arrow Trap">>

\* MazeNode.connections starts as an empty dict
NoConnections == <<>>

Room(id, name, row, col, owner, treasure, trap) ==
  [kind |-> "Room", id |-> id, name |-> name, row |-> row, col |-> col,
   connections |-> NoConnections,
   owner |-> owner, treasure |-> treasure, trap |-> trap]

Connection(id, name, row, col, length) ==
  [kind |-> "Connection", id |-> id, name |-> name, row |-> row, col |-> col,
   connections |-> NoConnections, length |-> length]

\* mutant of AddConnection: the node's other entries are dropped
AddConnectionReset(h, n, direction, destination) ==
  [h EXCEPT ![n].connections = (direction :> destination)]

\* MazeNode.add_connection on node n of heap h: self.connections[direction] = destination
AddConnection(h, n, direction, destination) ==
  [h EXCEPT ![n].connections = (direction :> destination) @@ @]

\* mutant of HasConnection: no connection is ever reported
HasConnectionNever(node, direction) == FALSE

HasConnection(node, direction) == direction \in DOMAIN node.connections

\* dict.get: the neighbor or None
GetConnection(node, direction) ==
  IF direction \in DOMAIN node.connections THEN node.connections[direction] ELSE None

ConnectionCount(node) == Cardinality(DOMAIN node.connections)

\* Connection.ways
Ways(node) == ConnectionCount(node)

(* -------------------------- generator.py ------------------------------- *)
ROOM_ADJECTIVES ==
  <<"Dark", "Dusty", "Crumbling", "Damp", "Eerie", "Forgotten",
    "Gloomy", "Haunted", "Icy", "Jagged", "Looming", "Mossy",
    "Narrow", "Overgrown", "Putrid", "Quiet", "Ruined", "Shadowy",
    "Twisted", "Unholy", "Vast", "Winding", "Ancient", "Burning">>

ROOM_NOUNS ==
  <<"Chamber", "Crypt", "Hall", "Cavern", "Den",
    "Dungeon", "Gallery", "Grotto", "Lair", "Pit",
    "Sanctum", "Shrine", "Tomb", "Vault", "Alcove",
    "Barracks", "Cell", "Chapel", "Forge", "Library", "Throne Room">>

CONNECTION_ADJECTIVES ==
  <<"Dark", "Narrow", "Winding", "Crumbling", "Damp", "Shadowy",
    "Long", "Twisted", "Mossy", "Dusty", "Cold", "Echoing",
    "Dim", "Steep", "Hidden", "Ancient", "Worn", "Slippery">>

CONNECTION_NOUNS ==
  <<"Corridor", "Passage", "Tunnel", "Hallway", "Walkway",
    "Path", "Bridge", "Stairway", "Crawlway", "Alley">>

\* DIRECTION_DELTAS, in the dict's insertion order
DirectionOrder == <<"N", "S", "E", "W">>

\* mutant of DIRECTION_DELTAS: rows and columns exchanged
DeltasTransposed(d) ==
  CASE d = "N" -> <<0, -1>>
    [] d = "S" -> <<0, 1>>
    [] d = "E" -> <<1, 0>>
    [] d = "W" -> <<-1, 0>>

DIRECTION_DELTAS(d) ==
  CASE d = "N" -> <<-1, 0>>
    [] d = "S" -> <<1, 0>>
    [] d = "E" -> <<0, 1>>
    [] d = "W" -> <<0, -1>>

\* range(100) of the naming loops
NameTries == 100

\* the first counter of the numeric-suffix fallback
FirstSuffix == 2

Min2(a, b) == IF a < b THEN a ELSE b

\* the indices a decorating draw over n values may take (see the header)
Picks(n, odd) == IF odd THEN 0 .. (Min2(n, MaxPick) - 1) ELSE {0}

\* the floats a decorating rng.random() may return
Floats(odd) == IF odd THEN 0 .. (FloatDen - 1) ELSE {0}

\* f"The {adj} {noun}"
BaseName(adj, noun) == "The " \o adj \o " " \o noun

\* f"{base} {counter}"
Suffixed(base, counter) == base \o " " \o ToString(counter)

\* the names one draw of (adjective, noun) can give
DrawnNames(adjectives, nouns, oddAdj, oddNoun) ==
  { BaseName(adjectives[i + 1], nouns[j + 1]) :
      i \in Picks(Len(adjectives), oddAdj), j \in Picks(Len(nouns), oddNoun) }

\* The for-loop over range(n), evaluated by halving the range (the first half
\* of the iterations, then the second half if the first half can fall
\* through).  One iteration draws a name from `drawn`: a name that is not
\* used is returned, a used one leads to the next iteration.
\*   returns: the names the loop can return
\*   exhausted: whether the loop can fall through to the fallback
RECURSIVE NameLoop(_, _, _)
NameLoop(n, drawn, used) ==
  IF n = 0 THEN [returns |-> {}, exhausted |-> TRUE]
  ELSE IF n = 1 THEN [returns |-> drawn \ used, exhausted |-> drawn \cap used # {}]
  ELSE LET first == NameLoop(n \div 2, drawn, used)
       IN  IF first.exhausted
             THEN LET rest == NameLoop(n - (n \div 2), drawn, used)
                  IN  [returns |-> first.returns \cup rest.returns,
                       exhausted |-> rest.exhausted]
             ELSE first

\* mutant of FallbackCounter: the counter is not advanced past used names
FallbackCounterNoLoop(base, counter, used) == counter

\* while f"{base} {counter}" in used_names: counter += 1
RECURSIVE FallbackCounter(_, _, _)
FallbackCounter(base, counter, used) ==
  IF Suffixed(base, counter) \in used
    THEN FallbackCounter(base, counter + 1, used)
    ELSE counter

FallbackName(base, used) == Suffixed(base, FallbackCounter(base, FirstSuffix, used))

\* the names a name generator can return for the used-names set `used`,
\* when each of its draws gives one of the names `drawn`
GenerateName(drawn, used) ==
  LET loop == NameLoop(NameTries, drawn, used)
  IN  loop.returns
        \cup (IF loop.exhausted
                THEN { FallbackName(base, used) : base \in drawn }
                ELSE {})

\* _generate_room_name (the set of drawable names is computed once)
GenerateRoomName(used, oddAdj, oddNoun) ==
  UNION { GenerateName(drawn, used) :
            drawn \in {DrawnNames(ROOM_ADJECTIVES, ROOM_NOUNS, oddAdj, oddNoun)} }

\* _generate_connection_name
GenerateConnectionName(used, oddAdj, oddNoun) ==
  UNION { GenerateName(drawn, used) :
            drawn \in {DrawnNames(CONNECTION_ADJECTIVES, CONNECTION_NOUNS,
                                  oddAdj, oddNoun)} }

\* mutant of RandomOwner: >= instead of >
RandomOwnerInclusive(f, pick, owner_chance) ==
  IF f >= owner_chance THEN OwnerNone ELSE Owners[pick + 1]

\* _random_owner with its two draws: the float f and the choice index pick
RandomOwner(f, pick, owner_chance) ==
  IF f > owner_chance THEN OwnerNone ELSE Owners[pick + 1]

RandomTreasure(f, pick, treasure_chance) ==
  IF f > treasure_chance THEN TreasureNone ELSE Treasures[pick + 1]

RandomTrap(f, pick, trap_chance) ==
  IF f > trap_chance THEN TrapNone ELSE Traps[pick + 1]

\* mutant of CreateConnectionBetween: room_b is wired in `direction`
\* instead of its opposite
CreateConnectionSameDirection(h, room_a, room_b, direction, length, conn_id, conn_name, grid_row, grid_col) ==
  LET connection == Len(h) + 1
      h0 == Append(h, Connection(conn_id, conn_name, grid_row, grid_col, length))
      h1 == AddConnection(h0, room_a, direction, connection)
      h2 == AddConnection(h1, connection, Opposite(direction), room_a)
      h3 == AddConnection(h2, connection, direction, room_b)
      h4 == AddConnection(h3, room_b, direction, connection)
  IN  h4

\* mutant of CreateConnectionBetween: room_a is wired to room_b itself
CreateConnectionDirect(h, room_a, room_b, direction, length, conn_id, conn_name, grid_row, grid_col) ==
  LET connection == Len(h) + 1
      h0 == Append(h, Connection(conn_id, conn_name, grid_row, grid_col, length))
      h1 == AddConnection(h0, room_a, direction, room_b)
      h2 == AddConnection(h1, connection, Opposite(direction), room_a)
      h3 == AddConnection(h2, connection, direction, room_b)
      h4 == AddConnection(h3, room_b, Opposite(direction), connection)
  IN  h4

\* mutant of CreateConnectionBetween: the connection is not given its link
\* to room_b
CreateConnectionOneEnded(h, room_a, room_b, direction, length, conn_id, conn_name, grid_row, grid_col) ==
  LET connection == Len(h) + 1
      h0 == Append(h, Connection(conn_id, conn_name, grid_row, grid_col, length))
      h1 == AddConnection(h0, room_a, direction, connection)
      h2 == AddConnection(h1, connection, Opposite(direction), room_a)
      h4 == AddConnection(h2, room_b, Opposite(direction), connection)
  IN  h4

\* mutant of CreateConnectionBetween: room_b is not given its link back to
\* the connection
CreateConnectionNoBackLink(h, room_a, room_b, direction, length, conn_id, conn_name, grid_row, grid_col) ==
  LET connection == Len(h) + 1
      h0 == Append(h, Connection(conn_id, conn_name, grid_row, grid_col, length))
      h1 == AddConnection(h0, room_a, direction, connection)
      h2 == AddConnection(h1, connection, Opposite(direction), room_a)
      h3 == AddConnection(h2, connection, direction, room_b)
  IN  h3

\* _create_connection_between on heap h; room_a and room_b are references.
\* The new connection is allocated at the end of the heap.
CreateConnectionBetween(h, room_a, room_b, direction, length, conn_id, conn_name, grid_row, grid_col) ==
  LET connection == Len(h) + 1
      h0 == Append(h, Connection(conn_id, conn_name, grid_row, grid_col, length))
      h1 == AddConnection(h0, room_a, direction, connection)
      h2 == AddConnection(h1, connection, Opposite(direction), room_a)
      h3 == AddConnection(h2, connection, direction, room_b)
      h4 == AddConnection(h3, room_b, Opposite(direction), connection)
  IN  h4

(* ------------------------------ state ---------------------------------- *)
VARIABLES
  args,        \* the arguments of generate_maze
  pc,          \* "rooms", "start", "carve", "loops", "entry", "done", "raised"
  nodes,       \* the heap of MazeNode objects
  grid,        \* <<row, col>> -> reference or None
  used_names,
  next_id,
  visited,
  stack,
  k,           \* position of the (r, c) loops of steps 1 and 3: r * width + c
  di,          \* position of step 3's loop over DIRECTION_DELTAS (1..4)
  entry,
  odd_draws,   \* node creations so far in which a decorating draw was odd
  pops,        \* executions of stack.pop() so far
  cli_args,    \* the Namespace parse_args returned to main, None without main
  exit_code,   \* the status main passed to sys.exit (pc = "exited"), else None
  draws,       \* the floats rng.random() returned for the room placed last
  call         \* the frame of a name generator called on its own, else None

vars ==
  <<args, pc, nodes, grid, used_names, next_id, visited, stack, k, di, entry,
    odd_draws, pops, cli_args, exit_code, draws, call>>

width == args.width
height == args.height

grid_h == IF height > 0 THEN (IF 2 * height - 1 > 0 THEN 2 * height - 1 ELSE 0) ELSE 0
grid_w == IF width > 0 THEN (IF 2 * width - 1 > 0 THEN 2 * width - 1 ELSE 0) ELSE 0

\* iterations of `for r in range(height): for c in range(width)`
LoopTotal == IF height > 0 /\ width > 0 THEN height * width ELSE 0
LoopRow(i) == i \div width
LoopCol(i) == i % width

\* mutant of InBounds: row 0 and column 0 are taken to be out of bounds
InBoundsStrict(nr, nc) == 0 < nr /\ nr < height /\ 0 < nc /\ nc < width

InBounds(nr, nc) == 0 <= nr /\ nr < height /\ 0 <= nc /\ nc < width

\* which decorating draw of a node creation may be odd
OddSites(sites) ==
  IF odd_draws < MaxOddDraws /\ LoopTotal <= MaxOddRooms
    THEN sites \cup {"none"}
    ELSE {"none"}
OddCount(site) == IF site = "none" THEN odd_draws ELSE odd_draws + 1

(* --------------------------- arguments --------------------------------- *)
Dimensions ==
  { d \in (0 .. MaxWidth) \X (0 .. MaxHeight) : d[1] * d[2] <= MaxRooms }

\* (min_connection_length, max_connection_length, owner_chance,
\*  treasure_chance, trap_chance, extra_connections)
Settings ==
  { <<1, 1, 0, 0, 0, 0>>,
    <<1, 2, FloatDen, FloatDen, FloatDen, FloatDen>>,
    <<2, 3, 2, 1, 1, 1>> }

Init ==
  /\ \E d \in Dimensions, s \in Settings :
       args = [width |-> d[1], height |-> d[2],
               min_connection_length |-> s[1], max_connection_length |-> s[2],
               owner_chance |-> s[3], treasure_chance |-> s[4],
               trap_chance |-> s[5], extra_connections |-> s[6]]
  /\ pc = IF LoopTotal > 0 THEN "rooms" ELSE "start"
  /\ nodes = <<>>
  /\ grid = [p \in (0 .. grid_h - 1) \X (0 .. grid_w - 1) |-> None]
  /\ used_names = {}
  /\ next_id = 0
  /\ visited = {}
  /\ stack = <<>>
  /\ k = 0
  /\ di = 1
  /\ entry = None
  /\ odd_draws = 0
  /\ pops = 0
  /\ cli_args = None
  /\ exit_code = None
  /\ draws = None
  /\ call = None

(* ------------------- step 1: place the rooms --------------------------- *)
PlaceRoom ==
  /\ pc = "rooms"
  /\ k < LoopTotal
  /\ \E odd \in OddSites({"adj", "noun", "owner_f", "owner", "treasure_f",
                          "treasure", "trap_f", "trap"}) :
     \E name \in GenerateRoomName(used_names, odd = "adj", odd = "noun") :
     \E of \in Floats(odd = "owner_f"), op \in Picks(Len(Owners), odd = "owner"),
        tf \in Floats(odd = "treasure_f"), tp \in Picks(Len(Treasures), odd = "treasure"),
        pf \in Floats(odd = "trap_f"), pp \in Picks(Len(Traps), odd = "trap") :
       LET gr == LoopRow(k) * 2
           gc == LoopCol(k) * 2
           room == Room(next_id, name, gr, gc,
                        RandomOwner(of, op, args.owner_chance),
                        RandomTreasure(tf, tp, args.treasure_chance),
                        RandomTrap(pf, pp, args.trap_chance))
       IN  /\ used_names' = used_names \cup {name}
           /\ nodes' = Append(nodes, room)
           /\ grid' = [grid EXCEPT ![<<gr, gc>>] = Len(nodes) + 1]
           /\ odd_draws' = OddCount(odd)
           /\ draws' = [owner |-> of, treasure |-> tf, trap |-> pf]
  /\ next_id' = next_id + 1
  /\ k' = k + 1
  /\ pc' = IF k + 1 < LoopTotal THEN "rooms" ELSE "start"
  /\ UNCHANGED <<call, cli_args, exit_code, pops, args, visited, stack, di, entry>>

(* ------------------- step 2: randomized DFS ---------------------------- *)
\* mutant of StartCarve: the start cell is pushed but not marked visited
StartCarveUnvisited ==
  /\ pc = "start"
  /\ IF height - 1 < 0 \/ width - 1 < 0
       THEN /\ pc' = "raised"
            /\ UNCHANGED <<visited, stack>>
       ELSE \E start_row \in 0 .. height - 1, start_col \in 0 .. width - 1 :
              /\ visited' = {}
              /\ stack' = <<(<<start_row, start_col>>)>>
              /\ pc' = "carve"
  /\ UNCHANGED <<call, draws, cli_args, exit_code, pops, args, nodes, grid, used_names, next_id,
                 k, di, entry, odd_draws>>

\* rng.randint(0, height - 1), rng.randint(0, width - 1): randint raises
\* ValueError on an empty range
StartCarve ==
  /\ pc = "start"
  /\ IF height - 1 < 0 \/ width - 1 < 0
       THEN /\ pc' = "raised"
            /\ UNCHANGED <<visited, stack>>
       ELSE \E start_row \in 0 .. height - 1, start_col \in 0 .. width - 1 :
              /\ visited' = {<<start_row, start_col>>}
              /\ stack' = <<(<<start_row, start_col>>)>>
              /\ pc' = "carve"
  /\ UNCHANGED <<call, draws, cli_args, exit_code, pops, args, nodes, grid, used_names, next_id,
                 k, di, entry, odd_draws>>

\* the unvisited in-bounds neighbours of (cr, cc), in DIRECTION_DELTAS order
Neighbors(cr, cc) ==
  LET Candidate(i) ==
        <<DirectionOrder[i],
          cr + DIRECTION_DELTAS(DirectionOrder[i])[1],
          cc + DIRECTION_DELTAS(DirectionOrder[i])[2]>>
      Keep(n) == InBounds(n[2], n[3]) /\ <<n[2], n[3]>> \notin visited
  IN  SelectSeq([i \in 1 .. Len(DirectionOrder) |-> Candidate(i)], Keep)

\* mutant of CarveBetween: the connection is stored in the midpoint cell but
\* records the neighbor's position as its own
CarveBetweenMisplacedNode(cr, cc, nr, nc, direction, length, conn_name) ==
  LET cur_gr == cr * 2
      cur_gc == cc * 2
      nbr_gr == nr * 2
      nbr_gc == nc * 2
      conn_gr == (cur_gr + nbr_gr) \div 2
      conn_gc == (cur_gc + nbr_gc) \div 2
      current_room == grid[<<cur_gr, cur_gc>>]
      neighbor_room == grid[<<nbr_gr, nbr_gc>>]
  IN  [nodes |-> CreateConnectionBetween(nodes, current_room, neighbor_room,
                   direction, length, next_id, conn_name, nbr_gr, nbr_gc),
       grid |-> [grid EXCEPT ![<<conn_gr, conn_gc>>] = Len(nodes) + 1]]

\* mutant of CarveBetween: the connection is placed on the neighbour's cell
\* instead of the midpoint
CarveBetweenAtNeighbor(cr, cc, nr, nc, direction, length, conn_name) ==
  LET cur_gr == cr * 2
      cur_gc == cc * 2
      nbr_gr == nr * 2
      nbr_gc == nc * 2
      conn_gr == nbr_gr
      conn_gc == nbr_gc
      current_room == grid[<<cur_gr, cur_gc>>]
      neighbor_room == grid[<<nbr_gr, nbr_gc>>]
  IN  [nodes |-> CreateConnectionBetween(nodes, current_room, neighbor_room,
                   direction, length, next_id, conn_name, conn_gr, conn_gc),
       grid |-> [grid EXCEPT ![<<conn_gr, conn_gc>>] = Len(nodes) + 1]]

\* mutant of CarveBetween: the connection is created and wired but never
\* stored in the grid
CarveBetweenUnplaced(cr, cc, nr, nc, direction, length, conn_name) ==
  LET cur_gr == cr * 2
      cur_gc == cc * 2
      nbr_gr == nr * 2
      nbr_gc == nc * 2
      conn_gr == (cur_gr + nbr_gr) \div 2
      conn_gc == (cur_gc + nbr_gc) \div 2
      current_room == grid[<<cur_gr, cur_gc>>]
      neighbor_room == grid[<<nbr_gr, nbr_gc>>]
  IN  [nodes |-> CreateConnectionBetween(nodes, current_room, neighbor_room,
                   direction, length, next_id, conn_name, conn_gr, conn_gc),
       grid |-> grid]

\* the heap and grid after carving a connection from the room at logical
\* (cr, cc) to the room at logical (nr, nc), which lies in `direction`
CarveBetween(cr, cc, nr, nc, direction, length, conn_name) ==
  LET cur_gr == cr * 2
      cur_gc == cc * 2
      nbr_gr == nr * 2
      nbr_gc == nc * 2
      conn_gr == (cur_gr + nbr_gr) \div 2
      conn_gc == (cur_gc + nbr_gc) \div 2
      current_room == grid[<<cur_gr, cur_gc>>]
      neighbor_room == grid[<<nbr_gr, nbr_gc>>]
  IN  [nodes |-> CreateConnectionBetween(nodes, current_room, neighbor_room,
                   direction, length, next_id, conn_name, conn_gr, conn_gc),
       grid |-> [grid EXCEPT ![<<conn_gr, conn_gc>>] = Len(nodes) + 1]]

\* mutant of Lengths: the draw is not offset by min_connection_length
LengthsFromZero(odd) ==
  { i : i \in Picks(args.max_connection_length - args.min_connection_length + 1, odd) }

\* rng.randint(min_connection_length, max_connection_length)
Lengths(odd) ==
  { args.min_connection_length + i :
      i \in Picks(args.max_connection_length - args.min_connection_length + 1, odd) }

\* mutant of CarveEffect: next_id is not advanced after a connection
CarveEffectReuseId(cr, cc, nr, nc, direction) ==
  \E odd \in OddSites({"length", "adj", "noun"}) :
  \E length \in Lengths(odd = "length") :
  \E conn_name \in GenerateConnectionName(used_names, odd = "adj", odd = "noun") :
    LET carved == CarveBetween(cr, cc, nr, nc, direction, length, conn_name)
    IN  /\ used_names' = used_names \cup {conn_name}
        /\ nodes' = carved.nodes
        /\ grid' = carved.grid
        /\ next_id' = next_id
        /\ odd_draws' = OddCount(odd)

\* the draws of one carve and their effect on the heap, the grid, the names
\* and the id counter
CarveEffect(cr, cc, nr, nc, direction) ==
  \E odd \in OddSites({"length", "adj", "noun"}) :
  \E length \in Lengths(odd = "length") :
  \E conn_name \in GenerateConnectionName(used_names, odd = "adj", odd = "noun") :
    LET carved == CarveBetween(cr, cc, nr, nc, direction, length, conn_name)
    IN  /\ used_names' = used_names \cup {conn_name}
        /\ nodes' = carved.nodes
        /\ grid' = carved.grid
        /\ next_id' = next_id + 1
        /\ odd_draws' = OddCount(odd)

\* mutant of Carve: the current cell is pushed again, not the neighbor
CarveRepush ==
  /\ pc = "carve"
  /\ stack # <<>>
  /\ LET cr == stack[Len(stack)][1]
         cc == stack[Len(stack)][2]
         neighbors == Neighbors(cr, cc)
     IN  /\ neighbors # <<>>
         /\ \E choice \in 1 .. Len(neighbors) :
              LET direction == neighbors[choice][1]
                  nr == neighbors[choice][2]
                  nc == neighbors[choice][3]
              IN  /\ CarveEffect(cr, cc, nr, nc, direction)
                  /\ visited' = visited \cup {<<nr, nc>>}
                  /\ stack' = Append(stack, <<cr, cc>>)
  /\ UNCHANGED <<call, draws, cli_args, exit_code, pops, args, pc, k, di, entry>>

Carve ==
  /\ pc = "carve"
  /\ stack # <<>>
  /\ LET cr == stack[Len(stack)][1]
         cc == stack[Len(stack)][2]
         neighbors == Neighbors(cr, cc)
     IN  /\ neighbors # <<>>
         /\ \E choice \in 1 .. Len(neighbors) :
              LET direction == neighbors[choice][1]
                  nr == neighbors[choice][2]
                  nc == neighbors[choice][3]
              IN  /\ CarveEffect(cr, cc, nr, nc, direction)
                  /\ visited' = visited \cup {<<nr, nc>>}
                  /\ stack' = Append(stack, <<nr, nc>>)
  /\ UNCHANGED <<call, draws, cli_args, exit_code, pops, args, pc, k, di, entry>>

(* ------------------- step 3: extra connections ------------------------- *)
\* The loops over (r, c, direction) are at iteration q = k * 4 + (di - 1).
\* An iteration whose condition is false before rng.random() is reached
\* (no in-bounds neighbour, or a connection already) draws nothing and
\* changes nothing: the actions below go from one draw to the next.
LoopIterations == LoopTotal * Len(DirectionOrder)
IterRoom(q) == q \div Len(DirectionOrder)
IterDirection(q) == DirectionOrder[(q % Len(DirectionOrder)) + 1]

\* mutant of ExtraCandidate: only the direction E is considered
ExtraCandidateEastOnly(h, q) ==
  LET direction == IterDirection(q)
      r == LoopRow(IterRoom(q))
      c == LoopCol(IterRoom(q))
      nr == r + DIRECTION_DELTAS(direction)[1]
      nc == c + DIRECTION_DELTAS(direction)[2]
      current_room == grid[<<r * 2, c * 2>>]
  IN  direction = "E" /\ InBounds(nr, nc) /\ ~HasConnection(h[current_room], direction)

\* the part of the condition evaluated before rng.random() is drawn, on heap h
ExtraCandidate(h, q) ==
  LET direction == IterDirection(q)
      r == LoopRow(IterRoom(q))
      c == LoopCol(IterRoom(q))
      nr == r + DIRECTION_DELTAS(direction)[1]
      nc == c + DIRECTION_DELTAS(direction)[2]
      current_room == grid[<<r * 2, c * 2>>]
  IN  InBounds(nr, nc) /\ ~HasConnection(h[current_room], direction)

\* the first iteration from q on that reaches the draw, or LoopIterations
NextDraw(h, q) ==
  LET reach == { x \in q .. LoopIterations - 1 : ExtraCandidate(h, x) }
  IN  IF reach = {} THEN LoopIterations
      ELSE CHOOSE x \in reach : \A y \in reach : x <= y

\* continue the loops of step 3 from iteration q on heap h
LoopsFrom(h, q) ==
  LET x == NextDraw(h, q)
  IN  IF x < LoopIterations
        THEN /\ pc' = "loops"
             /\ k' = IterRoom(x)
             /\ di' = (x % Len(DirectionOrder)) + 1
        ELSE /\ pc' = "entry"
             /\ k' = LoopTotal
             /\ di' = 1

Iteration == k * Len(DirectionOrder) + (di - 1)

\* mutant of Backtrack: a dead end empties the stack instead of popping it
BacktrackClear ==
  /\ pc = "carve"
  /\ stack # <<>>
  /\ Neighbors(stack[Len(stack)][1], stack[Len(stack)][2]) = <<>>
  /\ stack' = <<>>
  /\ LoopsFrom(nodes, 0)
  /\ pops' = pops + 1
  /\ UNCHANGED <<call, draws, cli_args, exit_code, args, nodes, grid, used_names, next_id,
                 visited, entry, odd_draws>>

\* mutant of Backtrack: a dead end is not popped
BacktrackNoPop ==
  /\ pc = "carve"
  /\ stack # <<>>
  /\ Neighbors(stack[Len(stack)][1], stack[Len(stack)][2]) = <<>>
  /\ stack' = stack
  /\ pops' = pops
  /\ UNCHANGED <<pc, k, di>>
  /\ UNCHANGED <<call, draws, cli_args, exit_code, args, nodes, grid, used_names, next_id,
                 visited, entry, odd_draws>>

\* stack.pop(); the while loop ends when the stack is empty
Backtrack ==
  /\ pc = "carve"
  /\ stack # <<>>
  /\ Neighbors(stack[Len(stack)][1], stack[Len(stack)][2]) = <<>>
  /\ stack' = SubSeq(stack, 1, Len(stack) - 1)
  /\ IF stack' = <<>>
       THEN LoopsFrom(nodes, 0)
       ELSE UNCHANGED <<pc, k, di>>
  /\ pops' = pops + 1
  /\ UNCHANGED <<call, draws, cli_args, exit_code, args, nodes, grid, used_names, next_id,
                 visited, entry, odd_draws>>

\* mutant of ExtraDrawn: <= instead of <
ExtraDrawnInclusive(f) == f <= args.extra_connections

\* rng.random() < extra_connections, for the drawn float f
ExtraDrawn(f) == f < args.extra_connections

\* the draw is not below extra_connections
ExtraSkip ==
  /\ pc = "loops"
  /\ \E f \in 0 .. FloatDen - 1 : ~ExtraDrawn(f)
  /\ LoopsFrom(nodes, Iteration + 1)
  /\ UNCHANGED <<call, draws, cli_args, exit_code, pops, args, nodes, grid, used_names, next_id,
                 visited, stack, entry,
                 odd_draws>>

ExtraCarve ==
  /\ pc = "loops"
  /\ \E f \in 0 .. FloatDen - 1 : ExtraDrawn(f)
  /\ LET direction == DirectionOrder[di]
         r == LoopRow(k)
         c == LoopCol(k)
         nr == r + DIRECTION_DELTAS(direction)[1]
         nc == c + DIRECTION_DELTAS(direction)[2]
         neighbor_room == grid[<<nr * 2, nc * 2>>]
     IN  IF ~HasConnection(nodes[neighbor_room], Opposite(direction))
           THEN CarveEffect(r, c, nr, nc, direction)
           ELSE UNCHANGED <<nodes, grid, used_names, next_id, odd_draws>>
  /\ LoopsFrom(nodes', Iteration + 1)
  /\ UNCHANGED <<call, draws, cli_args, exit_code, pops, args, visited, stack, entry>>

(* ------------------- step 4: the entry --------------------------------- *)
\* the populated cells of grid g in row-major scan order that are of `kind`
ScanOf(h, g, kind) ==
  LET cells == [i \in 1 .. grid_h * grid_w |->
                  g[<<(i - 1) \div grid_w, (i - 1) % grid_w>>]]
      Keep(n) == n # None /\ h[n].kind = kind
  IN  SelectSeq(cells, Keep)

AllConnections(h, g) == ScanOf(h, g, "Connection")
AllRooms(h, g) == ScanOf(h, g, "Room")

\* mutant of OnBoundary: only the bottom and right edges count
OnBoundaryFarEdges(conn) ==
  \/ conn.row = grid_h - 1
  \/ conn.col = grid_w - 1

OnBoundary(conn) ==
  \/ conn.row = 0
  \/ conn.row = grid_h - 1
  \/ conn.col = 0
  \/ conn.col = grid_w - 1

\* mutant of EntryOf: the scan does not stop at the first boundary connection
EntryOfLast(h, g) ==
  LET all_connections == AllConnections(h, g)
      boundary == { i \in 1 .. Len(all_connections) : OnBoundary(h[all_connections[i]]) }
  IN  IF boundary # {}
        THEN all_connections[CHOOSE i \in boundary : \A j \in boundary : i >= j]
        ELSE IF all_connections # <<>> THEN all_connections[1] ELSE None

\* the first boundary connection in scan order, else the first connection,
\* else None
EntryOf(h, g) ==
  LET all_connections == AllConnections(h, g)
      boundary == { i \in 1 .. Len(all_connections) : OnBoundary(h[all_connections[i]]) }
  IN  IF boundary # {}
        THEN all_connections[CHOOSE i \in boundary : \A j \in boundary : i <= j]
        ELSE IF all_connections # <<>> THEN all_connections[1] ELSE None

ChooseEntry ==
  /\ pc = "entry"
  /\ entry' = EntryOf(nodes, grid)
  /\ pc' = "done"
  /\ UNCHANGED <<call, draws, cli_args, exit_code, pops, args, nodes, grid, used_names, next_id,
                 visited, stack, k, di,
                 odd_draws>>

(* ------------------- the returned Maze --------------------------------- *)
\* Maze(rooms_wide=width, rooms_tall=height, grid=grid, entry=entry)
Returned == pc = "done"

\* Maze.total_rooms
TotalRooms == width * height

\* Maze.all_nodes, as the set of references held by the grid
AllNodes == { grid[p] : p \in DOMAIN grid } \ {None}

\* Maze.total_nodes: the number of populated cells
TotalNodes == Cardinality({ p \in DOMAIN grid : grid[p] # None })

\* self.grid[row][col], Python's list subscription: a negative index counts
\* from the end of the list, an index outside -len .. len-1 raises IndexError
GridItem(row, col) ==
  LET InList(len, i) == -len <= i /\ i < len
      At(len, i) == IF i < 0 THEN i + len ELSE i
  IN  IF InList(grid_h, row) /\ InList(grid_w, col)
        THEN [raises |-> FALSE, value |-> grid[<<At(grid_h, row), At(grid_w, col)>>]]
        ELSE [raises |-> TRUE, value |-> None]

\* mutant of GetCell: the lower bounds 0 <= row and 0 <= col are not tested
GetCellNoLowerBound(row, col) ==
  IF row < grid_h /\ grid_h > 0 /\ col < grid_w
    THEN GridItem(row, col)
    ELSE [raises |-> FALSE, value |-> None]

\* Maze.get_cell; len(self.grid) is grid_h and, for a non-empty grid,
\* len(self.grid[0]) is grid_w
GetCell(row, col) ==
  IF 0 <= row /\ row < grid_h /\ grid_h > 0 /\ 0 <= col /\ col < grid_w
    THEN GridItem(row, col)
    ELSE [raises |-> FALSE, value |-> None]

\* Maze.get_room
GetRoom(logical_row, logical_col) ==
  LET grid_row == logical_row * 2
      grid_col == logical_col * 2
      cell == GetCell(grid_row, grid_col)
  IN  IF cell.raises THEN cell
      ELSE IF cell.value # None /\ nodes[cell.value].kind = "Room" THEN cell
      ELSE [raises |-> FALSE, value |-> None]

Next ==
  \/ PlaceRoom
  \/ StartCarve
  \/ Carve
  \/ Backtrack
  \/ ExtraSkip
  \/ ExtraCarve
  \/ ChooseEntry

Spec == Init /\ [][Next]_vars

\* Carve can be taken: the top of the stack has an unvisited neighbor (a
\* length and a name can always be drawn). This is ENABLED <<Carve>>_vars.
CarveEnabled ==
  /\ pc = "carve"
  /\ stack # <<>>
  /\ Neighbors(stack[Len(stack)][1], stack[Len(stack)][2]) # <<>>

\* The interpreter runs the while loop of step 2 iteration after iteration:
\* weak fairness of Backtrack and of Carve, the latter spelled out with
\* CarveEnabled in place of ENABLED <<Carve>>_vars.
FairSpec ==
  /\ Spec
  /\ WF_vars(Backtrack)
  /\ ([]<>(~CarveEnabled) \/ []<><<Carve>>_vars)

(* ------------------------------ cli.py --------------------------------- *)
\* the chances parse_args may return: a float below 0, one inside [0, 1] and
\* one above 1
CliChances == {0 - 1, FloatDen \div 2, FloatDen + 1}

\* the Namespaces parse_args may return (seed and name play no part in main)
CliArguments ==
  [width : 0 .. MaxWidth, height : 0 .. MaxHeight,
   min_length : 0 .. MaxPick, max_length : 0 .. (MaxPick + 1),
   owner_chance : CliChances, treasure_chance : CliChances,
   trap_chance : CliChances, extra_connections : CliChances]

\* main after args = parse_args(argv); generate_maze has not been called and
\* its locals do not exist yet
InitCli ==
  /\ cli_args \in CliArguments
  /\ exit_code = None
  /\ pc = "main"
  /\ args = None
  /\ nodes = <<>>
  /\ grid = <<>>
  /\ used_names = {}
  /\ next_id = 0
  /\ visited = {}
  /\ stack = <<>>
  /\ k = 0
  /\ di = 1
  /\ entry = None
  /\ odd_draws = 0
  /\ pops = 0
  /\ draws = None
  /\ call = None

\* sys.exit(status)
SysExit(status) ==
  /\ exit_code' = status
  /\ pc' = "exited"
  /\ UNCHANGED <<call, draws, cli_args, args, nodes, grid, used_names, next_id, visited, stack,
                 k, di, entry, odd_draws, pops>>

\* if args.width < 1 or args.height < 1: sys.exit(1)
MainRejectSize ==
  /\ pc = "main"
  /\ cli_args.width < 1 \/ cli_args.height < 1
  /\ SysExit(1)

\* if args.min_length < 1: sys.exit(1)
MainRejectMinLength ==
  /\ pc = "main"
  /\ ~(cli_args.width < 1 \/ cli_args.height < 1)
  /\ cli_args.min_length < 1
  /\ SysExit(1)

\* if args.max_length < args.min_length: sys.exit(1)
MainRejectMaxLength ==
  /\ pc = "main"
  /\ ~(cli_args.width < 1 \/ cli_args.height < 1)
  /\ ~(cli_args.min_length < 1)
  /\ cli_args.max_length < cli_args.min_length
  /\ SysExit(1)

\* no test of main fired: generate_maze is called with the parsed values and
\* starts at its initialisation
MainGenerate ==
  /\ pc = "main"
  /\ ~(cli_args.width < 1 \/ cli_args.height < 1)
  /\ ~(cli_args.min_length < 1)
  /\ ~(cli_args.max_length < cli_args.min_length)
  /\ args' = [width |-> cli_args.width, height |-> cli_args.height,
              min_connection_length |-> cli_args.min_length,
              max_connection_length |-> cli_args.max_length,
              owner_chance |-> cli_args.owner_chance,
              treasure_chance |-> cli_args.treasure_chance,
              trap_chance |-> cli_args.trap_chance,
              extra_connections |-> cli_args.extra_connections]
  /\ pc' = IF LoopTotal' > 0 THEN "rooms" ELSE "start"
  /\ nodes' = <<>>
  /\ grid' = [p \in (0 .. grid_h' - 1) \X (0 .. grid_w' - 1) |-> None]
  /\ used_names' = {}
  /\ next_id' = 0
  /\ UNCHANGED <<call, draws, cli_args, exit_code, visited, stack, k, di, entry, odd_draws, pops>>

NextCli ==
  \/ MainRejectSize
  \/ MainRejectMinLength
  \/ MainRejectMaxLength
  \/ MainGenerate

SpecCli == InitCli /\ [][NextCli]_vars

(* ------------- a name generator called on its own ---------------------- *)
\* _generate_room_name and _generate_connection_name differ in their word
\* lists only; call.fn says which of the two runs.
Adjectives(fn) == IF fn = "room" THEN ROOM_ADJECTIVES ELSE CONNECTION_ADJECTIVES
Nouns(fn) == IF fn = "room" THEN ROOM_NOUNS ELSE CONNECTION_NOUNS

\* the names one draw of (adjective, noun) can give, over the first MaxPick
\* words of each list
NamePool(fn) == DrawnNames(Adjectives(fn), Nouns(fn), TRUE, TRUE)

\* the used_names sets a generator is called with: the names of the first a
\* adjectives and b nouns, and every drawable name with the suffixes of a
\* range of counters
UsedSets(fn) ==
  { { BaseName(Adjectives(fn)[i], Nouns(fn)[j]) : i \in 1 .. a, j \in 1 .. b }
      \cup { Suffixed(base, c) : base \in NamePool(fn), c \in lo .. hi } :
      a \in 0 .. Min2(Len(Adjectives(fn)), MaxPick),
      b \in 0 .. Min2(Len(Nouns(fn)), MaxPick),
      lo \in FirstSuffix .. (FirstSuffix + 1),
      hi \in (FirstSuffix - 1) .. (FirstSuffix + MaxSuffix - 1) }

\* the call of a name generator: no iteration made yet; name, base and
\* counter are not assigned yet (shown as "" and 0)
InitName ==
  /\ \E fn \in {"room", "connection"} :
       /\ call = [fn |-> fn, tries |-> 0, name |-> "", base |-> "", counter |-> 0]
       /\ used_names \in UsedSets(fn)
  /\ pc = "name_loop"
  /\ args = None
  /\ nodes = <<>>
  /\ grid = <<>>
  /\ next_id = 0
  /\ visited = {}
  /\ stack = <<>>
  /\ k = 0
  /\ di = 1
  /\ entry = None
  /\ odd_draws = 0
  /\ pops = 0
  /\ cli_args = None
  /\ exit_code = None
  /\ draws = None

\* what a name generator does not touch
NameFrame ==
  UNCHANGED <<args, nodes, grid, next_id, visited, stack, k, di, entry, odd_draws,
              pops, cli_args, exit_code, draws>>

\* one iteration of `for _ in range(100)`: two draws, the name, the test; a
\* free name is registered and returned, a used one leads to the next
\* iteration or, after the last one, to the fallback
NameTry ==
  /\ pc = "name_loop"
  /\ call.tries < NameTries
  /\ \E name \in NamePool(call.fn) :
       /\ call' = [call EXCEPT !.tries = @ + 1, !.name = name]
       /\ IF name \notin used_names
            THEN /\ used_names' = used_names \cup {name}
                 /\ pc' = "name_returned"
            ELSE /\ used_names' = used_names
                 /\ pc' = IF call.tries + 1 < NameTries THEN "name_loop"
                                                       ELSE "name_fallback"
  /\ NameFrame

\* base = f"The {rng.choice(...)} {rng.choice(...)}"; counter = 2
NameFallback ==
  /\ pc = "name_fallback"
  /\ \E base \in NamePool(call.fn) :
       call' = [call EXCEPT !.base = base, !.counter = FirstSuffix]
  /\ pc' = "name_count"
  /\ UNCHANGED used_names
  /\ NameFrame

\* mutant of NameCount: the counter is not advanced
NameCountStuck ==
  /\ pc = "name_count"
  /\ Suffixed(call.base, call.counter) \in used_names
  /\ call' = call
  /\ UNCHANGED <<pc, used_names>>
  /\ NameFrame

\* while f"{base} {counter}" in used_names: counter += 1
NameCount ==
  /\ pc = "name_count"
  /\ Suffixed(call.base, call.counter) \in used_names
  /\ call' = [call EXCEPT !.counter = @ + 1]
  /\ UNCHANGED <<pc, used_names>>
  /\ NameFrame

\* mutant of NameReturn: the fallback returns the base when it is free
NameReturnBare ==
  /\ pc = "name_count"
  /\ Suffixed(call.base, call.counter) \notin used_names
  /\ LET name == IF call.base \notin used_names THEN call.base
                  ELSE Suffixed(call.base, call.counter)
     IN  /\ call' = [call EXCEPT !.name = name]
         /\ used_names' = used_names \cup {name}
  /\ pc' = "name_returned"
  /\ NameFrame

\* name = f"{base} {counter}"; used_names.add(name); return name
NameReturn ==
  /\ pc = "name_count"
  /\ Suffixed(call.base, call.counter) \notin used_names
  /\ LET name == Suffixed(call.base, call.counter)
     IN  /\ call' = [call EXCEPT !.name = name]
         /\ used_names' = used_names \cup {name}
  /\ pc' = "name_returned"
  /\ NameFrame

NextName ==
  \/ NameTry
  \/ NameFallback
  \/ NameCount
  \/ NameReturn

SpecName == InitName /\ [][NextName]_vars

\* the interpreter runs the generator statement after statement
FairName == SpecName /\ WF_vars(NextName)

(* ======================= properties ==================================== *)
RoomRefs == { n \in AllNodes : nodes[n].kind = "Room" }
ConnectionRefs == { n \in AllNodes : nodes[n].kind = "Connection" }

\* the nodes a traversal over neighbor links visits from the nodes S
RECURSIVE Traverse(_)
Traverse(S) ==
  LET T == S \cup UNION { { nodes[n].connections[d] : d \in DOMAIN nodes[n].connections }
                          : n \in S }
  IN  IF T = S THEN S ELSE Traverse(T)

\* C1: in the returned maze, a traversal over neighbor links from any room
\* visits as many distinct ids as the grid has populated nodes.
C1_FullReachability ==
  Returned =>
    \A start \in RoomRefs :
      Cardinality({ nodes[n].id : n \in Traverse({start}) }) = TotalNodes

C1_Witness ==
  /\ Returned
  /\ width = 3 /\ height = 3
  /\ Cardinality(ConnectionRefs) > TotalRooms - 1
  /\ \A start \in RoomRefs : Traverse({start}) = AllNodes

\* C2: in the returned maze, for every node n and direction d with neighbor
\* m, m has a neighbor in opposite(d) and it is n.
C2_Bidirectional ==
  Returned =>
    \A n \in AllNodes : \A d \in DOMAIN nodes[n].connections :
      LET m == nodes[n].connections[d]
      IN  /\ HasConnection(nodes[m], Opposite(d))
          /\ nodes[m].connections[Opposite(d)] = n
          /\ nodes[nodes[m].connections[Opposite(d)]].id = nodes[n].id

C2_Witness ==
  /\ Returned
  /\ TotalRooms >= 4
  /\ \E n \in RoomRefs : ConnectionCount(nodes[n]) >= 3
  /\ \A n \in AllNodes : \A d \in DOMAIN nodes[n].connections :
       GetConnection(nodes[nodes[n].connections[d]], Opposite(d)) = n

\* C3: with extra_connections = 0 the returned maze has total_rooms - 1
\* connections.
C3_SpanningTreeSize ==
  (Returned /\ args.extra_connections = 0) =>
    Len(AllConnections(nodes, grid)) = TotalRooms - 1

C3_Witness ==
  /\ Returned
  /\ args.extra_connections = 0
  /\ width = 3 /\ height = 3
  /\ Len(AllConnections(nodes, grid)) = 8

\* C5: the returned grid is (2*height-1) x (2*width-1); even-even cells hold
\* a Room, odd-odd cells are empty, mixed-parity cells are empty or hold a
\* Connection; every room has even row and col, every connection exactly
\* one odd coordinate.
C5_GridParity ==
  Returned =>
    /\ DOMAIN grid = (0 .. 2 * height - 2) \X (0 .. 2 * width - 2)
    /\ \A p \in DOMAIN grid :
         IF p[1] % 2 = 0 /\ p[2] % 2 = 0
           THEN grid[p] # None /\ nodes[grid[p]].kind = "Room"
         ELSE IF p[1] % 2 = 1 /\ p[2] % 2 = 1
           THEN grid[p] = None
         ELSE grid[p] = None \/ nodes[grid[p]].kind = "Connection"
    /\ \A n \in RoomRefs : nodes[n].row % 2 = 0 /\ nodes[n].col % 2 = 0
    /\ \A n \in ConnectionRefs : (nodes[n].row % 2) + (nodes[n].col % 2) = 1

C5_Witness ==
  /\ Returned
  /\ width = 3 /\ height = 2
  /\ \E p \in DOMAIN grid : p[1] % 2 = 1 /\ p[2] % 2 = 0 /\ grid[p] # None
  /\ \E p \in DOMAIN grid : p[1] % 2 = 0 /\ p[2] % 2 = 1 /\ grid[p] = None

\* C6: in the returned maze every neighbor in a room's neighbor map is a
\* Connection.
C6_RoomsLinkConnections ==
  Returned =>
    \A n \in RoomRefs : \A d \in DOMAIN nodes[n].connections :
      nodes[nodes[n].connections[d]].kind = "Connection"

C6_Witness ==
  /\ Returned
  /\ \E n \in RoomRefs :
       /\ ConnectionCount(nodes[n]) = 4
       /\ \A d \in Direction : nodes[nodes[n].connections[d]].kind = "Connection"

\* C7: ids are pairwise distinct and sequential: the room at logical (r, c)
\* has id r*width + c, connections get width*height, width*height+1, ... in
\* creation order, and the ids of the returned maze are 0 .. total_nodes-1.
C7_SequentialIds ==
  /\ \A i \in 1 .. Len(nodes) : nodes[i].id = i - 1
  /\ pc \notin {"rooms"} =>
       \A i \in 1 .. Len(nodes) : (nodes[i].kind = "Room") <=> (i <= LoopTotal)
  \* step 2 creates the connections with ids below 2*width*height - 1, step 3
  \* those from 2*width*height - 1 on
  /\ pc = "carve" => Len(nodes) <= 2 * LoopTotal - 1
  /\ pc \in {"loops", "entry", "done"} => Len(nodes) >= 2 * LoopTotal - 1
  /\ Returned =>
       /\ \A r \in 0 .. height - 1, c \in 0 .. width - 1 :
            nodes[grid[<<2 * r, 2 * c>>]].id = r * width + c
       /\ { nodes[n].id : n \in AllNodes } = 0 .. (TotalNodes - 1)
       /\ \A m, n \in AllNodes : m # n => nodes[m].id # nodes[n].id

C7_Witness ==
  /\ Returned
  /\ width = 2 /\ height = 3
  /\ Cardinality(ConnectionRefs) = 7
  /\ \E n \in ConnectionRefs : nodes[n].id = TotalRooms + 6

\* no two rooms share a name and no two connections share a name
NamesDistinct ==
  \A m, n \in 1 .. Len(nodes) :
    (m # n /\ nodes[m].kind = nodes[n].kind) => nodes[m].name # nodes[n].name

\* the name of the node created by this step was not in the used-names set
\* before the step and is in it after
NewNameRegistered ==
  Len(nodes') > Len(nodes) =>
    /\ nodes'[Len(nodes')].name \notin used_names
    /\ nodes'[Len(nodes')].name \in used_names'

\* C8: room names are pairwise distinct and connection names are pairwise
\* distinct, also when the retry loop is exhausted and the numeric suffix is
\* used; a generated name is absent from the used-names set before the call
\* and present in it after.
C8_UniqueNames == [][NamesDistinct' /\ NewNameRegistered]_vars

C8_Witness ==
  /\ Returned
  /\ \E n \in RoomRefs :
       nodes[n].name = Suffixed(BaseName(ROOM_ADJECTIVES[1], ROOM_NOUNS[1]), 3)
  /\ \E n \in ConnectionRefs :
       nodes[n].name =
         Suffixed(BaseName(CONNECTION_ADJECTIVES[1], CONNECTION_NOUNS[1]), 2)
  /\ NamesDistinct

\* C9: in the returned maze every room has between 0 and 4 connections, and
\* 0 only when total_rooms = 1.
C9_DegreeBound ==
  Returned =>
    \A n \in RoomRefs :
      /\ ConnectionCount(nodes[n]) >= 0
      /\ ConnectionCount(nodes[n]) <= 4
      /\ (ConnectionCount(nodes[n]) = 0) => (TotalRooms = 1)
      /\ (TotalRooms = 1) => (ConnectionCount(nodes[n]) = 0)

C9_Witness ==
  /\ Returned
  /\ width = 3 /\ height = 3
  /\ \E n \in RoomRefs : ConnectionCount(nodes[n]) = 4
  /\ \E n \in RoomRefs : ConnectionCount(nodes[n]) = 1

\* position p comes before position q in the row-major scan of the grid
ScanBefore(p, q) == p[1] < q[1] \/ (p[1] = q[1] /\ p[2] <= q[2])

BoundaryPosition(p) ==
  p[1] = 0 \/ p[1] = 2 * height - 2 \/ p[2] = 0 \/ p[2] = 2 * width - 2

ConnectionPositions ==
  { p \in DOMAIN grid : grid[p] # None /\ nodes[grid[p]].kind = "Connection" }

\* C10: the entry of the returned maze is the first connection in scan order
\* that is on the outer boundary; if there is none, the first connection in
\* scan order; it is absent exactly when the maze has no connection.
C10_EntrySelection ==
  Returned =>
    LET onEdge == { p \in ConnectionPositions : BoundaryPosition(p) }
        pool == IF onEdge # {} THEN onEdge ELSE ConnectionPositions
    IN  /\ (entry = None) <=> (ConnectionPositions = {})
        /\ entry # None =>
             /\ nodes[entry].kind = "Connection"
             /\ \E p \in pool :
                  /\ grid[p] = entry
                  /\ \A q \in pool : ScanBefore(p, q)

C10_Witness ==
  /\ Returned
  /\ entry # None
  /\ \E p \in ConnectionPositions : ~BoundaryPosition(p)
  /\ Cardinality({ p \in ConnectionPositions : BoundaryPosition(p) }) >= 2

C10_WitnessNoEntry ==
  Returned /\ entry = None /\ TotalRooms = 1

\* step 2 is over: the while loop of the DFS has ended
PhaseBOver == pc \in {"loops", "entry", "done"}

\* the connections step 3 has created so far
ExtraCreated == Len(nodes) - (2 * LoopTotal - 1)

\* C11: for width >= 2 and height >= 2, once the DFS carve is over at least
\* one connection lies on the outer boundary of the expanded grid, whatever
\* was drawn and also with extra_connections = 0.
C11_BoundaryConnection ==
  (PhaseBOver /\ width >= 2 /\ height >= 2) =>
    \E p \in ConnectionPositions :
      /\ BoundaryPosition(p)
      /\ OnBoundary(nodes[grid[p]])

C11_Witness ==
  /\ pc = "entry"
  /\ width = 3 /\ height = 3
  /\ args.extra_connections = 0
  /\ ExtraCreated = 0
  /\ \E p \in ConnectionPositions : ~BoundaryPosition(p)
  /\ \E p \in ConnectionPositions : BoundaryPosition(p)

\* C12: every connection created in step 2 or step 3 has
\* min_connection_length <= length <= max_connection_length, and so
\* length >= 1 when min_connection_length >= 1.
C12_LengthInRange ==
  args.min_connection_length <= args.max_connection_length =>
    \A i \in 1 .. Len(nodes) :
      nodes[i].kind = "Connection" =>
        /\ args.min_connection_length <= nodes[i].length
        /\ nodes[i].length <= args.max_connection_length
        /\ args.min_connection_length >= 1 => nodes[i].length >= 1

C12_Witness ==
  /\ Returned
  /\ args.min_connection_length < args.max_connection_length
  /\ \E i \in 1 .. Len(nodes) :
       nodes[i].kind = "Connection" /\ nodes[i].length = args.max_connection_length

C12_WitnessLoop ==
  /\ Returned
  /\ ExtraCreated > 0
  /\ args.min_connection_length = 2
  /\ \A i \in 1 .. Len(nodes) : nodes[i].kind = "Connection" => nodes[i].length = 2

\* C13: generate_maze called with width <= 0 or height <= 0 does not fail and
\* returns a maze with an empty grid, no rooms, no connections and no entry.
C13_EmptyMazeReturned ==
  (width <= 0 \/ height <= 0) =>
    /\ pc # "raised"
    /\ Returned =>
         /\ AllNodes = {}
         /\ Len(AllRooms(nodes, grid)) = 0
         /\ Len(AllConnections(nodes, grid)) = 0
         /\ entry = None

\* the call with a zero size has reached the draw of the start cell
C13_Reached ==
  /\ width <= 0 \/ height <= 0
  /\ pc = "raised"
  /\ nodes = <<>>

\* the logical cell of room n has a logical neighbor inside the grid in
\* direction d
LogicalNeighborInside(n, d) ==
  LET r == nodes[n].row \div 2
      c == nodes[n].col \div 2
  IN  CASE d = "N" -> r - 1 >= 0
        [] d = "S" -> r + 1 <= height - 1
        [] d = "E" -> c + 1 <= width - 1
        [] d = "W" -> c - 1 >= 0

\* C14: a room never has a connection in a direction in which it has no
\* in-bounds logical neighbor; with width 1 the rooms use only North and
\* South, with height 1 only East and West.
C14_NoOutwardConnection ==
  \A n \in 1 .. Len(nodes) :
    nodes[n].kind = "Room" =>
      /\ \A d \in DOMAIN nodes[n].connections : LogicalNeighborInside(n, d)
      /\ width = 1 => DOMAIN nodes[n].connections \subseteq {"N", "S"}
      /\ height = 1 => DOMAIN nodes[n].connections \subseteq {"E", "W"}

C14_Witness ==
  /\ Returned
  /\ width = 1 /\ height = 3
  /\ \E n \in RoomRefs : DOMAIN nodes[n].connections = {"N", "S"}
  /\ \E n \in RoomRefs : DOMAIN nodes[n].connections = {"S"}

C14_WitnessBorder ==
  /\ Returned
  /\ width = 3 /\ height = 3
  /\ args.extra_connections = FloatDen
  /\ \E n \in RoomRefs :
       nodes[n].row = 0 /\ nodes[n].col = 2 /\ DOMAIN nodes[n].connections = {"E", "W", "S"}

\* C15: every connection has exactly 2 exits (ways = connection_count = 2);
\* its two neighbors are two distinct rooms, one in a direction d and one in
\* opposite(d), and they are the rooms on either side of its grid slot. It
\* holds for the connections of step 2 and of step 3 alike, so no 1-, 3- or
\* 4-way connection and no connection-to-connection link occurs.
C15_TwoWayConnections ==
  \A n \in 1 .. Len(nodes) :
    nodes[n].kind = "Connection" =>
      /\ Ways(nodes[n]) = 2
      /\ ConnectionCount(nodes[n]) = 2
      /\ \E d \in Direction :
           /\ DOMAIN nodes[n].connections = {d, Opposite(d)}
           /\ LET a == nodes[n].connections[Opposite(d)]
                  b == nodes[n].connections[d]
              IN  /\ a # b
                  /\ nodes[a].kind = "Room" /\ nodes[b].kind = "Room"
                  /\ nodes[a].id # nodes[b].id
                  /\ nodes[b].row = nodes[n].row + DIRECTION_DELTAS(d)[1]
                  /\ nodes[b].col = nodes[n].col + DIRECTION_DELTAS(d)[2]
                  /\ nodes[a].row = nodes[n].row - DIRECTION_DELTAS(d)[1]
                  /\ nodes[a].col = nodes[n].col - DIRECTION_DELTAS(d)[2]
                  /\ grid[<<nodes[a].row, nodes[a].col>>] = a
                  /\ grid[<<nodes[b].row, nodes[b].col>>] = b

C15_Witness ==
  /\ Returned
  /\ width = 3 /\ height = 3
  /\ ExtraCreated >= 2
  /\ \E n \in ConnectionRefs :
       nodes[n].id >= 2 * TotalRooms - 1 /\ DOMAIN nodes[n].connections = {"N", "S"}
  /\ \E n \in ConnectionRefs :
       nodes[n].id >= 2 * TotalRooms - 1 /\ DOMAIN nodes[n].connections = {"E", "W"}

\* the logical rows and columns a lookup is tried with
LookupRows == (0 - LookupMargin) .. (MaxHeight + LookupMargin)
LookupCols == (0 - LookupMargin) .. (MaxWidth + LookupMargin)

\* C16: on a generated maze get_room(r, c) with 0 <= r < height and
\* 0 <= c < width returns the Room stored at grid (2r, 2c), whose id is
\* r*width + c; for logical coordinates outside that range, negative ones
\* included, get_room returns None and so does the get_cell lookup it makes,
\* as does get_cell for every position outside the grid; nothing raises.
C16_RoomLookup ==
  Returned =>
    /\ \A r \in LookupRows, c \in LookupCols :
         IF 0 <= r /\ r < height /\ 0 <= c /\ c < width
           THEN /\ ~GetRoom(r, c).raises
                /\ GetRoom(r, c).value # None
                /\ GetRoom(r, c).value = grid[<<2 * r, 2 * c>>]
                /\ nodes[GetRoom(r, c).value].kind = "Room"
                /\ nodes[GetRoom(r, c).value].id = r * width + c
           ELSE /\ GetRoom(r, c) = [raises |-> FALSE, value |-> None]
                /\ GetCell(2 * r, 2 * c) = [raises |-> FALSE, value |-> None]
    /\ \A row \in LookupRows, col \in LookupCols :
         <<row, col>> \notin DOMAIN grid =>
           GetCell(row, col) = [raises |-> FALSE, value |-> None]

\* a returned 3x2 maze in which a lookup left of the grid would, by list
\* subscription alone, land on a node
C16_Witness ==
  /\ Returned
  /\ width = 3 /\ height = 2
  /\ nodes[GetRoom(1, 2).value].id = 5
  /\ GetRoom(0, -1).value = None
  /\ GridItem(0, -2).value # None
  /\ GridItem(6, 0).raises
  /\ GetRoom(3, 0).value = None

\* the configuration is valid: sizes at least 1, lengths ordered, every
\* probability inside [0, 1]
ValidConfiguration(a) ==
  /\ a.width >= 1
  /\ a.height >= 1
  /\ a.max_length >= a.min_length
  /\ \A chance \in {a.owner_chance, a.treasure_chance, a.trap_chance,
                    a.extra_connections} : 0 <= chance /\ chance <= FloatDen

\* generate_maze has been called by main
GenerateCalled == pc \notin {"main", "exited"}

\* C17: main rejects every invalid configuration (width < 1, height < 1,
\* max_length < min_length, a probability outside [0, 1]) with a non-zero
\* exit status before generate_maze is called; generate_maze is reached only
\* with a valid configuration.
C17_InvalidRejected ==
  /\ pc = "exited" => (exit_code # None /\ exit_code # 0)
  /\ (pc # "main" /\ ~ValidConfiguration(cli_args)) =>
       (pc = "exited" /\ ~GenerateCalled)
  /\ GenerateCalled => ValidConfiguration(cli_args)

\* generate_maze is called with a probability outside [0, 1]
C17_Reached ==
  /\ GenerateCalled
  /\ args.owner_chance > FloatDen
  /\ args.extra_connections < 0

\* the part of C17 about sizes and lengths: those are rejected with status 1
C17_SizeAndLengthRejected ==
  (pc # "main" /\ (cli_args.width < 1 \/ cli_args.height < 1
                   \/ cli_args.max_length < cli_args.min_length)) =>
    (pc = "exited" /\ exit_code = 1)

\* the cells of the logical grid
LogicalCells == (0 .. height - 1) \X (0 .. width - 1)

\* the step that ends the while loop of step 2
PhaseBEnds == pc = "carve" /\ pc' # "carve"

\* C18: for width >= 1 and height >= 1 step 2 terminates whatever neighbors
\* are chosen: the loop ends with an empty stack after exactly
\* width*height - 1 carve steps and width*height pops, the visited set is
\* then the whole logical grid, and every cell was pushed exactly once.
C18_PhaseBTerminates ==
  /\ (pc = "carve" /\ LoopTotal >= 1) ~> PhaseBOver
  /\ [][PhaseBEnds =>
          /\ stack' = <<>>
          /\ Len(nodes') - LoopTotal = width * height - 1
          /\ pops' = width * height
          /\ visited' = LogicalCells]_vars
  /\ [][Len(stack') > Len(stack) =>
          /\ Len(stack') = Len(stack) + 1
          /\ stack'[Len(stack')] \notin visited
          /\ visited' = visited \cup {stack'[Len(stack')]}]_vars

C18_Witness ==
  /\ pc = "loops"
  /\ width = 3 /\ height = 3
  /\ stack = <<>>
  /\ pops = 9
  /\ ExtraCreated = 0
  /\ Cardinality(visited) = 9

\* the nodes left after removing, again and again, every node with at most
\* one neighbor among those left; a graph has no cycle iff nothing is left
RECURSIVE PruneLeaves(_)
PruneLeaves(S) ==
  LET Degree(n) ==
        Cardinality({ d \in DOMAIN nodes[n].connections : nodes[n].connections[d] \in S })
      T == { n \in S : Degree(n) >= 2 }
  IN  IF T = S THEN S ELSE PruneLeaves(T)

\* rooms and connections form a spanning tree of the logical grid
SpanningTree ==
  /\ Cardinality(ConnectionRefs) = width * height - 1
  /\ Cardinality({ i \in 1 .. Len(nodes) : nodes[i].kind = "Connection" })
       = width * height - 1
  /\ Cardinality(RoomRefs) = width * height
  /\ \A start \in RoomRefs : Traverse({start}) = AllNodes
  /\ PruneLeaves(1 .. Len(nodes)) = {}

\* C19: when step 2 ends, before step 3 starts and whatever extra_connections
\* is, rooms and connections form a spanning tree: exactly width*height - 1
\* connections, all rooms connected, no cycle.
\* The step that ends the loop is the last pop, which leaves heap and grid as
\* they are: the tree is stated of the state the step starts from.
C19_SpanningTreeAfterDFS ==
  [][PhaseBEnds => (SpanningTree /\ UNCHANGED <<nodes, grid>>)]_vars

C19_Witness ==
  /\ pc = "loops"
  /\ width = 3 /\ height = 3
  /\ args.extra_connections = FloatDen
  /\ ExtraCreated = 0
  /\ SpanningTree
  /\ \E n \in RoomRefs : ConnectionCount(nodes[n]) = 3

\* a returned maze that is no longer a tree once step 3 has added to it
C19_WitnessLoopAdded ==
  /\ Returned
  /\ ExtraCreated > 0
  /\ PruneLeaves(1 .. Len(nodes)) # {}

\* a step of step 3 that creates a connection
ExtraCreates == pc = "loops" /\ Len(nodes') > Len(nodes)

\* no two connections join the same two rooms, and every connection created
\* is still in the grid slot it was stored in
SingleWired ==
  \A m \in 1 .. Len(nodes) :
    nodes[m].kind = "Connection" =>
      /\ grid[<<nodes[m].row, nodes[m].col>>] = m
      /\ \A n \in 1 .. Len(nodes) :
           (n # m /\ nodes[n].kind = "Connection") =>
             { nodes[m].connections[d] : d \in DOMAIN nodes[m].connections }
               # { nodes[n].connections[d] : d \in DOMAIN nodes[n].connections }

\* C20: step 3 never double-wires. It creates a connection between a room and
\* its in-bounds logical neighbor in direction d only when the room has no
\* connection in d and the neighbor has none in opposite(d), into a grid slot
\* that was empty; so any two adjacent rooms are joined by at most one
\* connection and every connection slot was written at most once.
C20_NoDoubleWiring ==
  [][ /\ ExtraCreates =>
           LET d == DirectionOrder[di]
               r == LoopRow(k)
               c == LoopCol(k)
               nr == r + DIRECTION_DELTAS(d)[1]
               nc == c + DIRECTION_DELTAS(d)[2]
               room == grid[<<2 * r, 2 * c>>]
               new == Len(nodes')
           IN  /\ 0 <= nr /\ nr < height /\ 0 <= nc /\ nc < width
               /\ Len(nodes') = Len(nodes) + 1
               /\ nodes'[new].kind = "Connection"
               /\ d \notin DOMAIN nodes[room].connections
               /\ Opposite(d) \notin DOMAIN nodes[grid[<<2 * nr, 2 * nc>>]].connections
               /\ nodes'[new].connections[Opposite(d)] = room
               /\ nodes'[new].connections[d] = grid[<<2 * nr, 2 * nc>>]
               /\ nodes'[new].row = r + nr /\ nodes'[new].col = c + nc
               /\ grid[<<r + nr, c + nc>>] = None
               /\ grid'[<<r + nr, c + nc>>] = new
      /\ SingleWired' ]_vars

C20_Witness ==
  /\ Returned
  /\ width = 3 /\ height = 3
  /\ args.extra_connections = FloatDen
  /\ ExtraCreated = 4
  /\ Cardinality(ConnectionRefs) = 12
  /\ SingleWired

\* a step of step 1 that places a room
RoomPlaced == pc = "rooms" /\ Len(nodes') > Len(nodes)

Members(seq) == { seq[i] : i \in 1 .. Len(seq) }

\* C21: for each of owner, treasure and trap the room placed gets the none
\* value exactly when the drawn float strictly exceeds the configured chance,
\* and otherwise one of the non-none variants of that category; with a chance
\* of 1 every room has a non-none owner, treasure and trap whatever is drawn.
C21_AttributeSampling ==
  [][RoomPlaced =>
       LET room == nodes'[Len(nodes')]
       IN  /\ (room.owner = OwnerNone) <=> (draws'.owner > args.owner_chance)
           /\ (room.treasure = TreasureNone) <=> (draws'.treasure > args.treasure_chance)
           /\ (room.trap = TrapNone) <=> (draws'.trap > args.trap_chance)
           /\ room.owner \in Members(Owners) \cup {OwnerNone}
           /\ room.treasure \in Members(Treasures) \cup {TreasureNone}
           /\ room.trap \in Members(Traps) \cup {TrapNone}
           /\ OwnerNone \notin Members(Owners)
           /\ TreasureNone \notin Members(Treasures)
           /\ TrapNone \notin Members(Traps)
           /\ args.owner_chance = FloatDen => room.owner \in Members(Owners)
           /\ args.treasure_chance = FloatDen => room.treasure \in Members(Treasures)
           /\ args.trap_chance = FloatDen => room.trap \in Members(Traps)]_vars

\* with a chance of 0 one room drew 0.0 and has an owner, another drew more
\* and has none
C21_Witness ==
  /\ Returned
  /\ args.owner_chance = 0
  /\ draws.owner > 0
  /\ \E n \in RoomRefs : nodes[n].owner = OwnerNone
  /\ \E n \in RoomRefs : nodes[n].owner \in Members(Owners)

\* with a chance of 1 the largest float still gives a trap, and not the first
C21_WitnessCertain ==
  /\ Returned
  /\ args.trap_chance = FloatDen
  /\ draws.trap = FloatDen - 1
  /\ \A n \in RoomRefs : nodes[n].trap \in Members(Traps)

C21_WitnessVariant ==
  /\ Returned
  /\ \E n \in RoomRefs : nodes[n].treasure = Treasures[2]

\* a name generator returns at this step
NameReturns == pc # "name_returned" /\ pc' = "name_returned"

\* C22: a name generator makes at most 100 draws of 'The {adjective} {noun}'
\* and returns the first drawn name that is not in the used set; when all 100
\* draws collide it draws one base phrase and returns 'base N' for the
\* smallest N >= 2 such that 'base N' is not in the used set, also when the
\* base itself is unused; either way exactly one name is added to the used
\* set.
C22_NamingFallback ==
  [][ /\ pc = "name_loop" =>
           /\ call.tries < NameTries
           /\ call'.tries = call.tries + 1
           /\ call'.name \in NamePool(call.fn)
           /\ IF call'.name \notin used_names
                THEN pc' = "name_returned"
                ELSE /\ used_names' = used_names
                     /\ pc' = IF call'.tries = NameTries THEN "name_fallback"
                                                         ELSE "name_loop"
      /\ pc = "name_fallback" =>
           /\ call.tries = NameTries
           /\ call.name \in used_names
           /\ call'.base \in NamePool(call.fn)
           /\ call'.counter = 2
           /\ used_names' = used_names
      /\ pc = "name_count" =>
           /\ call'.base = call.base
           /\ call.counter >= 2
           /\ \A c \in 2 .. (call.counter - 1) : Suffixed(call.base, c) \in used_names
           /\ IF Suffixed(call.base, call.counter) \in used_names
                THEN /\ pc' = "name_count"
                     /\ call'.counter = call.counter + 1
                     /\ used_names' = used_names
                ELSE /\ pc' = "name_returned"
                     /\ call'.name = call.base \o " " \o ToString(call.counter)
      /\ NameReturns =>
           /\ call'.name \notin used_names
           /\ used_names' = used_names \cup {call'.name}
           /\ Cardinality(used_names') = Cardinality(used_names) + 1
           /\ call'.name \in GenerateName(NamePool(call.fn), used_names)
    ]_vars

\* the fallback returned 'base 4' for a base that is itself unused
C22_Witness ==
  /\ pc = "name_returned"
  /\ call.tries = NameTries
  /\ call.base \notin used_names
  /\ call.counter = 4
  /\ call.name = Suffixed(call.base, 4)
  /\ call.name \in used_names

\* the 100th draw was the first free one
C22_WitnessLastTry ==
  /\ pc = "name_returned"
  /\ call.tries = NameTries
  /\ call.base = ""
  /\ call.name \in NamePool(call.fn)

\* with 'base 3' used and 'base 2' free the fallback returns 'base 2'
C22_WitnessGap ==
  /\ pc = "name_returned"
  /\ call.counter = 2
  /\ Suffixed(call.base, 3) \in used_names
  /\ call.name = Suffixed(call.base, 2)

\* C23: name generation always terminates and reports no error: for every
\* used-names set, also one that holds every adjective/noun combination and
\* suffixed names, and every sequence of draws, the generator returns a name.
C23_NameTerminates ==
  /\ <>(pc = "name_returned")
  /\ [](pc \in {"name_loop", "name_fallback", "name_count", "name_returned"})
  /\ [](pc = "name_returned" => (call.name # "" /\ call.name \in used_names))

\* every drawable name was used, with suffixes 2 and 3 taken: the generator
\* returned 'base 4'
C23_Witness ==
  /\ pc = "name_returned"
  /\ NamePool(call.fn) \subseteq used_names
  /\ \A base \in NamePool(call.fn) : Suffixed(base, 3) \in used_names
  /\ call.counter = 4
  /\ call.name = Suffixed(call.base, 4)

\* C24: whenever the returned maze has a connection (width*height >= 2, any
\* extra_connections) the entry is the first connection in row-major scan
\* order and lies on the outer boundary of the grid: the branch 'no boundary
\* connection, take the first connection' is never the one that decides.
C24_EntryFirstOnBoundary ==
  Returned =>
    /\ TotalRooms >= 2 => ConnectionPositions # {}
    /\ ConnectionPositions # {} =>
         /\ entry # None
         /\ \E p \in ConnectionPositions :
              /\ \A q \in ConnectionPositions : ScanBefore(p, q)
              /\ grid[p] = entry
              /\ BoundaryPosition(p)
              /\ nodes[entry].row = p[1] /\ nodes[entry].col = p[2]
         /\ entry = AllConnections(nodes, grid)[1]

\* row 0 holds no connection: the entry is the one below the first room
C24_Witness ==
  /\ Returned
  /\ width = 2 /\ height = 3
  /\ entry # None
  /\ nodes[entry].row = 1 /\ nodes[entry].col = 0
  /\ \E p \in ConnectionPositions : ~BoundaryPosition(p)

\* the direction facing d
Facing(d) ==
  CASE d = "N" -> "S"
    [] d = "S" -> "N"
    [] d = "E" -> "W"
    [] d = "W" -> "E"

\* the logical cell next to (r, c) in direction d
LogicalStep(r, c, d) ==
  CASE d = "N" -> <<r - 1, c>>
    [] d = "S" -> <<r + 1, c>>
    [] d = "E" -> <<r, c + 1>>
    [] d = "W" -> <<r, c - 1>>

\* C25: after every carve step of step 2 or step 3, for every room R and
\* direction d with an in-bounds logical neighbor N, R has a connection in d
\* iff N has one in opposite(d), and then both are the same Connection node;
\* so whenever step 3 is at its draw, the neighbor lacks a connection in
\* opposite(d): the inner test of step 3 is true whenever it is evaluated.
C25_LinkSymmetry ==
  /\ pc \in {"carve", "loops", "entry", "done"} =>
       \A cell \in LogicalCells : \A d \in Direction :
         LET there == LogicalStep(cell[1], cell[2], d)
             R == grid[<<2 * cell[1], 2 * cell[2]>>]
         IN  there \in LogicalCells =>
               LET N == grid[<<2 * there[1], 2 * there[2]>>]
               IN  /\ (d \in DOMAIN nodes[R].connections)
                        <=> (Facing(d) \in DOMAIN nodes[N].connections)
                   /\ d \in DOMAIN nodes[R].connections =>
                        /\ nodes[R].connections[d] = nodes[N].connections[Facing(d)]
                        /\ nodes[nodes[R].connections[d]].kind = "Connection"
  /\ pc = "loops" =>
       LET d == DirectionOrder[di]
           there == LogicalStep(LoopRow(k), LoopCol(k), d)
       IN  /\ there \in LogicalCells
           /\ d \notin DOMAIN nodes[grid[<<2 * LoopRow(k), 2 * LoopCol(k)>>]].connections
           /\ Facing(d) \notin DOMAIN nodes[grid[<<2 * there[1], 2 * there[2]>>]].connections

\* step 3 is at a draw after it has created a connection, with a pair of
\* rooms still unlinked
C25_Witness ==
  /\ pc = "loops"
  /\ width = 3 /\ height = 3
  /\ ExtraCreated >= 1
  /\ ~HasConnection(nodes[grid[<<2 * LoopRow(k), 2 * LoopCol(k)>>]], DirectionOrder[di])
  /\ \E n \in RoomRefs : ConnectionCount(nodes[n]) = 4

\* the grid step of direction d from (r, c)
GridStep(r, c, d) ==
  CASE d = "N" -> <<r - 1, c>>
    [] d = "S" -> <<r + 1, c>>
    [] d = "E" -> <<r, c + 1>>
    [] d = "W" -> <<r, c - 1>>

\* C26: every node is stored in the grid cell given by its own (row, col);
\* for every node n and direction d in which n has a neighbor m, m is one
\* grid step from n in d (N row-1, S row+1, E col+1, W col-1); every
\* connection lies at the midpoint of the two rooms it joins.
C26_GridGeometry ==
  /\ \A n \in 1..Len(nodes) :
       /\ <<nodes[n].row, nodes[n].col>> \in DOMAIN grid
       /\ grid[<<nodes[n].row, nodes[n].col>>] = n
       /\ \A d \in DOMAIN nodes[n].connections :
            LET m == nodes[n].connections[d]
            IN  /\ m \in 1..Len(nodes)
                /\ <<nodes[m].row, nodes[m].col>> = GridStep(nodes[n].row, nodes[n].col, d)
  /\ \A c \in ConnectionRefs :
       \E d \in DOMAIN nodes[c].connections :
         LET a == nodes[nodes[c].connections[Facing(d)]]
             b == nodes[nodes[c].connections[d]]
         IN  /\ Facing(d) \in DOMAIN nodes[c].connections
             /\ a.kind = "Room" /\ b.kind = "Room"
             /\ 2 * nodes[c].row = a.row + b.row
             /\ 2 * nodes[c].col = a.col + b.col

\* a finished 3x3 maze with connections of step 3 in all four directions
C26_Witness ==
  /\ Returned
  /\ width = 3 /\ height = 3
  /\ ExtraCreated >= 2
  /\ \A d \in Direction : \E n \in RoomRefs : d \in DOMAIN nodes[n].connections
  /\ \E c \in ConnectionRefs : nodes[c].row % 2 = 1
  /\ \E c \in ConnectionRefs : nodes[c].col % 2 = 1

\* the room at logical cell p
RoomAt(p) == grid[<<2 * p[1], 2 * p[2]>>]

\* the rooms at logical cells p and q are joined by connection node c
Joins(c, p, q) ==
  \E d \in Direction :
    /\ LogicalStep(p[1], p[2], d) = q
    /\ d \in DOMAIN nodes[RoomAt(p)].connections
    /\ nodes[RoomAt(p)].connections[d] = c
    /\ nodes[c].kind = "Connection"
    /\ d \in DOMAIN nodes[c].connections
    /\ nodes[c].connections[d] = RoomAt(q)

\* the invariant of the loop of step 2 at the start of an iteration
StackInvariant ==
  /\ \A i \in 1 .. Len(stack) : stack[i] \in visited
  /\ \A i, j \in 1 .. Len(stack) : stack[i] = stack[j] => i = j
  /\ \A i \in 1 .. Len(stack) - 1 :
       \E c \in ConnectionRefs : Joins(c, stack[i], stack[i + 1])
  /\ Cardinality(ConnectionRefs) = Cardinality(visited) - 1

\* a step of the loop of step 2 that pushes a cell creates, in that step, the
\* connection joining it to the cell below it
PushCreatesJoin ==
  (pc = "carve" /\ Len(stack') > Len(stack)) =>
    /\ Len(stack') = Len(stack) + 1
    /\ SubSeq(stack', 1, Len(stack)) = stack
    /\ Len(nodes') = Len(nodes) + 1
    /\ nodes'[Len(nodes')].kind = "Connection"
    /\ \E d \in Direction :
         /\ LogicalStep(stack[Len(stack)][1], stack[Len(stack)][2], d) = stack'[Len(stack')]
         /\ nodes'[Len(nodes')].connections
              = (d :> RoomAt(stack'[Len(stack')]) @@ Facing(d) :> RoomAt(stack[Len(stack)]))
         /\ nodes'[RoomAt(stack[Len(stack)])].connections[d] = Len(nodes')

\* C27: at the start of every iteration of the loop of step 2, every stack
\* cell is in visited, no cell is on the stack twice, consecutive stack cells
\* are logically adjacent and joined by a connection, created when the upper
\* of the two was pushed, and the number of connections is |visited| - 1.
C27_StackInvariant ==
  /\ [](pc = "carve" => StackInvariant)
  /\ [][PushCreatesJoin]_vars

\* the loop of step 2 has backtracked and then pushed again
C27_Witness ==
  /\ pc = "carve"
  /\ width = 3 /\ height = 3
  /\ pops >= 2
  /\ Len(stack) >= 3
  /\ Cardinality(visited) > Len(stack) + 1
  /\ stack[Len(stack)] \notin {stack[1]}

\* C28: with extra_connections = 1, step 3 connects every adjacent pair that
\* step 2 left unconnected: the finished maze has exactly
\* height*(width-1) + width*(height-1) connections, and every room has a
\* connection in every direction in which it has an in-bounds neighbor.
C28_FullGrid ==
  (Returned /\ args.extra_connections = FloatDen) =>
    /\ Cardinality(ConnectionRefs) = height * (width - 1) + width * (height - 1)
    /\ Cardinality(ConnectionPositions) = height * (width - 1) + width * (height - 1)
    /\ \A cell \in LogicalCells : \A d \in Direction :
         LogicalStep(cell[1], cell[2], d) \in LogicalCells
           => d \in DOMAIN nodes[RoomAt(cell)].connections

\* a returned 2x3 maze under extra_connections = 1: step 2 made 5
\* connections and step 3 added the other 2
C28_Witness ==
  /\ Returned
  /\ args.extra_connections = FloatDen
  /\ width = 2 /\ height = 3
  /\ ExtraCreated = 2
  /\ Cardinality(ConnectionRefs) = 7
  /\ \A n \in RoomRefs : ConnectionCount(nodes[n]) >= 2

\* node n keeps, across the step, every field but its connections, and every
\* entry of its connections
NodeKept(n) ==
  /\ nodes'[n].kind = nodes[n].kind
  /\ nodes'[n].id = nodes[n].id
  /\ nodes'[n].name = nodes[n].name
  /\ nodes'[n].row = nodes[n].row
  /\ nodes'[n].col = nodes[n].col
  /\ nodes[n].kind = "Room" =>
       /\ nodes'[n].owner = nodes[n].owner
       /\ nodes'[n].treasure = nodes[n].treasure
       /\ nodes'[n].trap = nodes[n].trap
  /\ nodes[n].kind = "Connection" => nodes'[n].length = nodes[n].length
  /\ \A d \in DOMAIN nodes[n].connections :
       /\ d \in DOMAIN nodes'[n].connections
       /\ nodes'[n].connections[d] = nodes[n].connections[d]

\* the step leaves what exists in place
NothingOverwritten ==
  /\ DOMAIN grid' = DOMAIN grid
  /\ \A p \in DOMAIN grid : grid[p] # None => grid'[p] = grid[p]
  /\ Len(nodes') >= Len(nodes)
  /\ \A n \in 1 .. Len(nodes) : NodeKept(n)

\* C29: nothing created earlier is overwritten or removed: a populated grid
\* cell keeps its node, an entry of a node's connections is never replaced,
\* and step 3 leaves every connection of step 2 (id, name, length, position,
\* both endpoints) and every room's id, name, position, owner, treasure and
\* trap unchanged.
C29_NothingOverwritten ==
  [][ /\ NothingOverwritten
      /\ pc = "loops" =>
           \A c \in ConnectionRefs : nodes'[c] = nodes[c] ]_vars

\* step 3 has given a third and fourth connection to a room that step 2 left
\* with two
C29_Witness ==
  /\ pc = "entry"
  /\ width = 3 /\ height = 3
  /\ ExtraCreated >= 3
  /\ \E n \in RoomRefs :
       /\ ConnectionCount(nodes[n]) = 4
       /\ Cardinality({d \in Direction : nodes[n].connections[d] > 2 * LoopTotal - 1}) = 2

====
